---- MODULE Spec2Model ----
(***************************************************************************)
(* NuitkaGUI: the import extractor of src/utils/dependence_utils.py        *)
(* (DependenceUtils.get_import_name_from_py_file) and the presenter events *)
(* of src/presenter/basic_presenter.py (BasicPresenter).                   *)
(*                                                                         *)
(* A Python str is a sequence of one-character strings, so that            *)
(* str.split('.')[0] is computed and not assumed.  None and the empty str  *)
(* are both <<>>: the code only ever tests them for truthiness.            *)
(***************************************************************************)
EXTENDS Integers, Sequences, FiniteSets, TLC

\* ------------------------------------------------------------------ bounds
\* Most nodes ast.walk yields after the Module root, in a file of Spec.
MaxNodes == 3
\* Most nodes per file in the two-file specifications.
MaxSmallNodes == 1
\* Most calls one caller makes in SpecTwice.
MaxCalls == 3
\* The presenter's clock stops at MaxTime; at most MaxTasks start clicks are accepted.
MaxTime == 2
MaxTasks == 2

\* ------------------------------------------------------------- python str
n_a == <<"a">>
n_a_b == <<"a", ".", "b">>
n_a_b_c == <<"a", ".", "b", ".", "c">>
n_os == <<"o", "s">>
n_c == <<"c">>
n_d == <<"d">>
n_star == <<"*">>
NoModule == <<>>

RECURSIVE SplitFirstKeepDots(_)
\* A wrong split: the dots are dropped and the segments run together.
SplitFirstKeepDots(s) ==
  IF s = <<>> THEN <<>>
  ELSE IF Head(s) = "." THEN SplitFirstKeepDots(Tail(s))
  ELSE <<Head(s)>> \o SplitFirstKeepDots(Tail(s))

RECURSIVE SplitFirst(_)
\* name.split('.')[0]: the characters before the first dot.
SplitFirst(s) ==
  IF s = <<>> THEN <<>>
  ELSE IF Head(s) = "." THEN <<>>
  ELSE <<Head(s)>> \o SplitFirst(Tail(s))

\* `if node.module:` of an Optional[str].
Truthy(s) == s # <<>>

Range(s) == {s[i] : i \in 1..Len(s)}

\* ------------------------------------------------------------- ast nodes
ImportNode(names) ==
  [type |-> "Import", module |-> NoModule, level |-> 0, names |-> names]
ImportFromNode(module, level, names) ==
  [type |-> "ImportFrom", module |-> module, level |-> level, names |-> names]
\* Any node that is neither ast.Import nor ast.ImportFrom.
OtherNode == [type |-> "Other", module |-> NoModule, level |-> 0, names |-> <<>>]

\* The nodes a file of Spec is made of: every import form the parser accepts.
Nodes ==
  { ImportNode(<<n_a>>), ImportNode(<<n_a_b>>), ImportNode(<<n_a_b_c>>),
    ImportNode(<<n_os>>), ImportNode(<<n_a, n_a_b>>),
    ImportFromNode(n_a_b, 0, <<n_c>>), ImportFromNode(n_a, 0, <<n_d>>),
    ImportFromNode(n_a, 0, <<n_star>>), ImportFromNode(n_a_b, 1, <<n_c>>),
    ImportFromNode(NoModule, 1, <<n_c>>), ImportFromNode(NoModule, 2, <<n_c, n_d>>),
    ImportFromNode(NoModule, 1, <<n_star>>), OtherNode }

SmallNodes ==
  { ImportNode(<<n_a_b>>), ImportFromNode(NoModule, 1, <<n_c>>),
    ImportFromNode(n_os, 0, <<n_d>>) }

SeqsUpTo(S, n) == UNION {[1..k -> S] : k \in 0..n}

\* ----------------------------------------------------------------- files
\* What a path leads to: whether open() succeeds, whether read() succeeds, what
\* ast.parse makes of the text, and the nodes ast.walk yields after the Module root.
File(opens, reads, kind, nodes) ==
  [opens |-> opens, reads |-> reads, kind |-> kind, nodes |-> nodes]
ValidFile(nodes) == File(TRUE, TRUE, "valid", nodes)
MissingFile == File(FALSE, FALSE, "valid", <<>>)
UnreadableFile == File(TRUE, FALSE, "valid", <<>>)
SyntaxErrorFile == File(TRUE, TRUE, "syntax_error", <<>>)
UnparsableFile == File(TRUE, TRUE, "parse_exception", <<>>)
FailingFiles == {MissingFile, UnreadableFile, SyntaxErrorFile, UnparsableFile}

Files == {ValidFile(ns) : ns \in SeqsUpTo(Nodes, MaxNodes)} \cup FailingFiles
SmallFiles == {ValidFile(ns) : ns \in SeqsUpTo(SmallNodes, MaxSmallNodes)} \cup FailingFiles

Threads == {1, 2}

\* ------------------------------------------------------------- variables
VARIABLES
  fs,            \* path -> File: the file system, never written
  stdout_ok,     \* whether sys.stdout can encode the diagnostics
  budget,        \* caller -> the calls it still makes
  pc,            \* caller -> its place in get_import_name_from_py_file
  arg,           \* caller -> file_path
  handle,        \* caller -> "none" | "open" | "closed": the file object of the with
  file_content,  \* caller -> the text read
  tree,          \* caller -> the nodes ast.walk has still to yield
  import_names,  \* caller -> the list import_names
  diag,          \* caller -> the lines the call has printed
  ret,           \* caller -> how the last call ended
  last,          \* caller -> path -> how the caller's last finished call on it ended
  \* BasicPresenter
  source_script_path, output_dir, icon_path, packaged_mode, project_python_exe_path,
  start_time,    \* self._start_time
  start_thread,  \* self._start_thread: the task it refers to
  tasks,         \* the RunInThread tasks started, in order
  now,           \* time.time()
  infobar        \* the infobar the view showed last

xvars == <<fs, stdout_ok, budget, pc, arg, handle, file_content, tree,
           import_names, diag, ret, last>>
pvars == <<source_script_path, output_dir, icon_path, packaged_mode,
           project_python_exe_path, start_time,
           start_thread, tasks, now, infobar>>
vars == <<xvars, pvars>>


\* ------------------------------------------------- get_import_name_from_py_file
NoText == [kind |-> "none", nodes |-> <<>>]
NoOutcome == [raised |-> FALSE, value |-> <<>>]
NoCall == [called |-> FALSE, raised |-> FALSE, names |-> {}, lines |-> 0]

\* A list that is kept from the call before instead of created.
StaleImportNames(old) == old

\* import_names = []
NewImportNames(old) == <<>>

\* A with block that leaves its file object open.
ExitWithLeak(h) == h

\* Leaving `with file_path.open(...) as file:`, normally or by an exception.
ExitWith(h) == IF h = "open" THEN "closed" ELSE h

\* A traversal that passes over a from-import without a module.
VisitSkipsRelative(node) ==
  IF node.type = "Import"
  THEN [i \in 1..Len(node.names) |-> SplitFirst(node.names[i])]
  ELSE IF node.type = "ImportFrom" /\ Truthy(node.module)
  THEN <<SplitFirst(node.module)>>
  ELSE <<>>

\* One turn of `for node in ast.walk(tree)`: what the node appends to import_names.
Visit(node) ==
  IF node.type = "Import"
  THEN [i \in 1..Len(node.names) |-> SplitFirst(node.names[i])]
  ELSE IF node.type = "ImportFrom"
  THEN IF Truthy(node.module)
       THEN <<SplitFirst(node.module)>>
       ELSE [i \in 1..Len(node.names) |-> SplitFirst(node.names[i])]
  ELSE <<>>

\* A return of the list as collected.
NoDedup(names) == {names}

\* list(set(import_names)): the distinct names, in an order the hash decides.
Dedup(names) ==
  {s \in [1..Cardinality(Range(names)) -> Range(names)] : Range(s) = Range(names)}

\* A handler that prints one line whatever the error.
OneLine(path) == <<[tag |-> "syntax_error", path |-> path]>>

\* The two print calls of `except SyntaxError`: the file, then the parser's message.
SyntaxErrorLines(path) ==
  <<[tag |-> "syntax_error", path |-> path], [tag |-> "detail", path |-> 0]>>
ReadFailedLines(path) == <<[tag |-> "read_failed", path |-> path]>>
ParseExceptionLines(path) == <<[tag |-> "ast_exception", path |-> path]>>

Busy(t) == pc[t] \notin {"idle", "done"}

Summary(t) ==
  [called |-> TRUE, raised |-> ret[t].raised, names |-> Range(ret[t].value),
   lines |-> Len(diag[t])]

\* The caller passes file_path; the callers of one moment work on different files.
Call(t, f) ==
  /\ ~Busy(t)
  /\ budget[t] > 0
  /\ \A u \in Threads \ {t} : Busy(u) => arg[u] # f
  /\ budget' = [budget EXCEPT ![t] = @ - 1]
  /\ last' = IF pc[t] = "done"
             THEN [last EXCEPT ![t][arg[t]] = Summary(t)]
             ELSE last
  /\ arg' = [arg EXCEPT ![t] = f]
  /\ import_names' = [import_names EXCEPT ![t] = NewImportNames(@)]
  /\ handle' = [handle EXCEPT ![t] = "none"]
  /\ file_content' = [file_content EXCEPT ![t] = NoText]
  /\ tree' = [tree EXCEPT ![t] = <<>>]
  /\ diag' = [diag EXCEPT ![t] = <<>>]
  /\ ret' = [ret EXCEPT ![t] = NoOutcome]
  /\ pc' = [pc EXCEPT ![t] = "open"]
  /\ UNCHANGED <<fs, stdout_ok, pvars>>

\* file_path.open('r', encoding='utf-8', errors='ignore')
Open(t) ==
  /\ pc[t] = "open"
  /\ IF fs[arg[t]].opens
     THEN /\ handle' = [handle EXCEPT ![t] = "open"]
          /\ pc' = [pc EXCEPT ![t] = "read"]
     ELSE /\ pc' = [pc EXCEPT ![t] = "read_failed"]
          /\ UNCHANGED handle
  /\ UNCHANGED <<fs, stdout_ok, budget, arg, file_content, tree, import_names,
                 diag, ret, last, pvars>>

\* file_content = file.read(), and the end of the with block.
Read(t) ==
  /\ pc[t] = "read"
  /\ handle' = [handle EXCEPT ![t] = ExitWith(@)]
  /\ IF fs[arg[t]].reads
     THEN /\ file_content' = [file_content EXCEPT
                                ![t] = [kind |-> fs[arg[t]].kind, nodes |-> fs[arg[t]].nodes]]
          /\ pc' = [pc EXCEPT ![t] = "parse"]
     ELSE /\ pc' = [pc EXCEPT ![t] = "read_failed"]
          /\ UNCHANGED file_content
  /\ UNCHANGED <<fs, stdout_ok, budget, arg, tree, import_names, diag, ret, last, pvars>>

\* An except clause: print the lines, return []. A print sys.stdout cannot encode
\* raises UnicodeEncodeError inside the handler, and nothing catches that.
Handler(t, lines) ==
  /\ IF stdout_ok
     THEN /\ diag' = [diag EXCEPT ![t] = @ \o lines]
          /\ ret' = [ret EXCEPT ![t] = [raised |-> FALSE, value |-> <<>>]]
     ELSE /\ ret' = [ret EXCEPT ![t] = [raised |-> TRUE, value |-> <<>>]]
          /\ UNCHANGED diag
  /\ pc' = [pc EXCEPT ![t] = "done"]
  /\ UNCHANGED <<fs, stdout_ok, budget, arg, handle, file_content, tree,
                 import_names, last, pvars>>

\* except Exception as e (of the read)
ReadFailed(t) ==
  /\ pc[t] = "read_failed"
  /\ Handler(t, ReadFailedLines(arg[t]))

\* tree = ast.parse(file_content)
Parse(t) ==
  /\ pc[t] = "parse"
  /\ IF file_content[t].kind = "valid"
     THEN /\ tree' = [tree EXCEPT ![t] = file_content[t].nodes]
          /\ pc' = [pc EXCEPT ![t] = "walk"]
     ELSE /\ pc' = [pc EXCEPT ![t] = file_content[t].kind]
          /\ UNCHANGED tree
  /\ UNCHANGED <<fs, stdout_ok, budget, arg, handle, file_content, import_names,
                 diag, ret, last, pvars>>

\* except SyntaxError as e
SyntaxErr(t) ==
  /\ pc[t] = "syntax_error"
  /\ Handler(t, SyntaxErrorLines(arg[t]))

\* except Exception as e (of the parse)
ParseException(t) ==
  /\ pc[t] = "parse_exception"
  /\ Handler(t, ParseExceptionLines(arg[t]))

\* for node in ast.walk(tree): ...
WalkStep(t) ==
  /\ pc[t] = "walk"
  /\ tree[t] # <<>>
  /\ import_names' = [import_names EXCEPT ![t] = @ \o Visit(Head(tree[t]))]
  /\ tree' = [tree EXCEPT ![t] = Tail(@)]
  /\ UNCHANGED <<fs, stdout_ok, budget, pc, arg, handle, file_content, diag, ret,
                 last, pvars>>

\* return list(set(import_names))
Return(t) ==
  /\ pc[t] = "walk"
  /\ tree[t] = <<>>
  /\ \E r \in Dedup(import_names[t]) :
       ret' = [ret EXCEPT ![t] = [raised |-> FALSE, value |-> r]]
  /\ pc' = [pc EXCEPT ![t] = "done"]
  /\ UNCHANGED <<fs, stdout_ok, budget, arg, handle, file_content, tree,
                 import_names, diag, last, pvars>>

XNext ==
  \E t \in Threads :
    \/ \E f \in DOMAIN fs : Call(t, f)
    \/ Open(t)
    \/ Read(t)
    \/ ReadFailed(t)
    \/ Parse(t)
    \/ SyntaxErr(t)
    \/ ParseException(t)
    \/ WalkStep(t)
    \/ Return(t)

\* ---------------------------------------------------------- BasicPresenter
\* A path the user can drop or pick: whether Path.exists(), and Path.suffix.
PathOf(exists, suffix, id) == [exists |-> exists, suffix |-> suffix, id |-> id]
\* None, and the '' a cancelled dialog returns.
NoPath == PathOf(FALSE, "", 0)
Urls ==
  { PathOf(TRUE, ".py", 1), PathOf(TRUE, ".txt", 2), PathOf(FALSE, ".py", 3),
    PathOf(TRUE, ".PY", 4) }
IconPaths == {PathOf(TRUE, ".ico", 5)}
DirPaths == {PathOf(TRUE, "", 6)}

\* The infobar the view shows last; duration is the time a finished task reports.
Infobar(kind, duration) == [kind |-> kind, duration |-> duration]

\* _source_script_changed keeps a path that exists and whose suffix is '.py'.
Accepts(p) == p.exists /\ p.suffix = ".py"

\* _get_output_dir_path: <parent of the script>/output, or <cwd>/output.
DefaultOutputDir(script) == [kind |-> "default", id |-> script.id]

\* BasicPresenter.__init__, with a BasicModel that holds no script yet.
PInit ==
  /\ source_script_path = NoPath
  /\ output_dir = [kind |-> "unset", id |-> 0]
  /\ icon_path = NoPath
  /\ packaged_mode = "unset"
  /\ project_python_exe_path = FALSE
  /\ start_time = 0
  /\ start_thread = 0
  /\ tasks = <<>>
  /\ now = 1
  /\ infobar = Infobar("none", 0)

\* _source_script_changed(drop_file_url); found: whether a python.exe lies under
\* the script's directory.
SourceScriptChanged(url, found) ==
  /\ IF ~url.exists
     THEN /\ infobar' = Infobar("file_missing", 0)
          /\ source_script_path' = NoPath
          /\ UNCHANGED <<output_dir, project_python_exe_path>>
     ELSE IF ~Accepts(url)
     THEN /\ infobar' = Infobar("not_py", 0)
          /\ source_script_path' = NoPath
          /\ UNCHANGED <<output_dir, project_python_exe_path>>
     ELSE /\ source_script_path' = url
          /\ output_dir' = DefaultOutputDir(url)
          /\ infobar' = Infobar("selected", 0)
          /\ project_python_exe_path' = (found \/ project_python_exe_path)
  /\ UNCHANGED <<icon_path, packaged_mode, start_time, start_thread, tasks, now, xvars>>

\* The signal droped_file_url of the mask.
Drop(url, found) == SourceScriptChanged(url, found)

\* _open_file_dialog, the dialog answering py_file.
OpenFileDialog(py_file, found) ==
  IF py_file = NoPath
  THEN /\ infobar' = Infobar("no_file", 0)
       /\ UNCHANGED <<source_script_path, output_dir, icon_path, packaged_mode,
                      project_python_exe_path, start_time, start_thread, tasks, now, xvars>>
  ELSE SourceScriptChanged(py_file, found)

\* _output_dir_changed, the dialog answering output_path.
OutputDirChanged(output_path) ==
  /\ IF source_script_path = NoPath
     THEN infobar' = Infobar("select_first", 0) /\ UNCHANGED output_dir
     ELSE IF output_path = NoPath
     THEN /\ output_dir' = DefaultOutputDir(source_script_path)
          /\ infobar' = Infobar("default_dir", 0)
     ELSE /\ output_dir' = [kind |-> "chosen", id |-> output_path.id]
          /\ UNCHANGED infobar
  /\ UNCHANGED <<source_script_path, icon_path, packaged_mode, project_python_exe_path,
                 start_time, start_thread, tasks, now, xvars>>

\* _icon_changed, the dialog answering icon_path.
IconChanged(path) ==
  /\ icon_path' = path
  /\ infobar' = IF path = NoPath THEN infobar ELSE Infobar("icon_selected", 0)
  /\ UNCHANGED <<source_script_path, output_dir, packaged_mode, project_python_exe_path,
                 start_time, start_thread, tasks, now, xvars>>

\* _packaged_mode_changed
PackagedModeChanged(is_onefile) ==
  /\ packaged_mode' = IF is_onefile THEN "onefile" ELSE "standalone"
  /\ UNCHANGED <<source_script_path, output_dir, icon_path, project_python_exe_path,
                 start_time, start_thread, tasks, now, infobar, xvars>>

\* A start that launches whatever the model holds.
AlwaysStarts(script) == TRUE

\* `if not self._model.source_script_path:` of _start, negated.
MayStart(script) == script # NoPath

\* _start: the click on the start button.
Start ==
  /\ Len(tasks) < MaxTasks
  /\ IF ~MayStart(source_script_path)
     THEN /\ infobar' = Infobar("select_first", 0)
          /\ UNCHANGED <<start_time, start_thread, tasks>>
     ELSE /\ start_time' = now
          /\ tasks' = Append(tasks, [script |-> source_script_path, started |-> now,
                                     state |-> "running"])
          /\ start_thread' = Len(tasks) + 1
          /\ UNCHANGED infobar
  /\ UNCHANGED <<source_script_path, output_dir, icon_path, packaged_mode,
                 project_python_exe_path, now, xvars>>

\* duration = time.time() - self._start_time if self._start_time else 0
Duration == IF start_time # 0 THEN now - start_time ELSE 0

\* finished(is_success), called when task i's model.start() has returned.
Finished(i, is_success) ==
  /\ i \in 1..Len(tasks)
  /\ tasks[i].state = "running"
  /\ IF is_success
     THEN /\ tasks' = [tasks EXCEPT ![i].state = "succeeded"]
          /\ infobar' = Infobar("task_done", Duration)
     ELSE /\ tasks' = [tasks EXCEPT ![i].state = "failed"]
          /\ infobar' = Infobar("task_failed", 0)
  /\ UNCHANGED <<source_script_path, output_dir, icon_path, packaged_mode,
                 project_python_exe_path, start_time, start_thread, now, xvars>>

\* time.time() moves on.
Tick ==
  /\ now < MaxTime
  /\ now' = now + 1
  /\ UNCHANGED <<source_script_path, output_dir, icon_path, packaged_mode,
                 project_python_exe_path, start_time, start_thread, tasks, infobar, xvars>>

PNext ==
  \/ \E url \in Urls, found \in BOOLEAN : Drop(url, found)
  \/ \E py_file \in Urls \cup {NoPath}, found \in BOOLEAN : OpenFileDialog(py_file, found)
  \/ \E d \in DirPaths \cup {NoPath} : OutputDirChanged(d)
  \/ \E p \in IconPaths \cup {NoPath} : IconChanged(p)
  \/ \E b \in BOOLEAN : PackagedModeChanged(b)
  \/ Start
  \/ \E i \in 1..MaxTasks, ok \in BOOLEAN : Finished(i, ok)
  \/ Tick

\* ------------------------------------------------------- specifications
XInit(paths, files, calls) ==
  /\ fs \in [paths -> files]
  /\ stdout_ok \in BOOLEAN
  /\ budget = calls
  /\ pc = [t \in Threads |-> "idle"]
  /\ arg = [t \in Threads |-> 1]
  /\ handle = [t \in Threads |-> "none"]
  /\ file_content = [t \in Threads |-> NoText]
  /\ tree = [t \in Threads |-> <<>>]
  /\ import_names = [t \in Threads |-> <<>>]
  /\ diag = [t \in Threads |-> <<>>]
  /\ ret = [t \in Threads |-> NoOutcome]
  /\ last = [t \in Threads |-> [f \in paths |-> NoCall]]

\* One caller, one call, one file out of Files.
Init == XInit({1}, Files, [t \in Threads |-> IF t = 1 THEN 1 ELSE 0]) /\ PInit
Spec == Init /\ [][XNext]_vars

\* One caller, up to MaxCalls calls in a row over two files.
InitTwice ==
  XInit({1, 2}, SmallFiles, [t \in Threads |-> IF t = 1 THEN MaxCalls ELSE 0]) /\ PInit
SpecTwice == InitTwice /\ [][XNext]_vars

\* Two callers at once, one call each.
InitConc == XInit({1, 2}, SmallFiles, [t \in Threads |-> 1]) /\ PInit
SpecConc == InitConc /\ [][XNext]_vars

\* The presenter's events, in any order; nobody calls the extractor.
InitPresenter ==
  XInit({1}, {MissingFile}, [t \in Threads |-> 0]) /\ stdout_ok /\ PInit
SpecPresenter == InitPresenter /\ [][PNext]_vars


\* ================================================================ claims
\* What the statements are measured against is written from the nodes of the
\* file, without the operators of the traversal.
TopLevel(s) ==
  LET k == CHOOSE k \in 0..Len(s) :
             /\ \A i \in 1..k : s[i] # "."
             /\ k = Len(s) \/ s[k + 1] = "."
  IN SubSeq(s, 1, k)
AliasNames(node) == {TopLevel(node.names[i]) : i \in 1..Len(node.names)}
IsImport(node) == node.type = "Import"
IsFromModule(node) == node.type = "ImportFrom" /\ node.module # NoModule
IsFromRelative(node) == node.type = "ImportFrom" /\ node.module = NoModule
ImportStatementNames(ns) == UNION {AliasNames(n) : n \in {m \in Range(ns) : IsImport(m)}}
FromModuleNames(ns) == {TopLevel(n.module) : n \in {m \in Range(ns) : IsFromModule(m)}}
FromRelativeNames(ns) == UNION {AliasNames(n) : n \in {m \in Range(ns) : IsFromRelative(m)}}

Done(t) == pc[t] = "done"
IsValid(file) == file.opens /\ file.reads /\ file.kind = "valid"
ValidDone(t) == Done(t) /\ IsValid(fs[arg[t]])
FailedDone(t) == Done(t) /\ ~IsValid(fs[arg[t]])
Result(t) == Range(ret[t].value)

\* C1 as stated: for every readable, parseable file the result is exactly the first
\* segments of the names of the `import X` statements together with the first
\* segments of the modules of the `from X import ...` statements that name a module.
C1_ImportsAndModulesOnly ==
  \A t \in Threads :
    ValidDone(t) =>
      /\ ~ret[t].raised
      /\ Result(t) = ImportStatementNames(fs[arg[t]].nodes)
                       \cup FromModuleNames(fs[arg[t]].nodes)

\* C1 amended: the result is exactly those two contributions together with the first
\* segment of every name imported by a `from . import ...` statement without a module;
\* a file of only `import a`, `import a.b`, `import a.b.c`, `from a.b import c`
\* yields {a}.
C1_ExactContributions ==
  \A t \in Threads :
    ValidDone(t) =>
      /\ ~ret[t].raised
      /\ Result(t) = ImportStatementNames(fs[arg[t]].nodes)
                       \cup FromModuleNames(fs[arg[t]].nodes)
                       \cup FromRelativeNames(fs[arg[t]].nodes)

C1_Witness ==
  /\ Done(1)
  /\ fs[arg[1]] = ValidFile(<<ImportNode(<<n_a_b_c>>), ImportNode(<<n_a, n_a_b>>),
                              ImportFromNode(n_a_b, 0, <<n_c>>)>>)
  /\ ret[1] = [raised |-> FALSE, value |-> <<n_a>>]

\* C2: a from-import without a module contributes the first segment of each imported
\* name: `from . import c` alone yields {c}, `from .. import c, d` alone {c, d}, a file
\* of nothing but such statements exactly their names, and a file of one `import`, one
\* `from X import` and one `from . import` the union of the three contributions.
C2_RelativeImports ==
  \A t \in Threads :
    ValidDone(t) =>
      LET ns == fs[arg[t]].nodes
      IN /\ FromRelativeNames(ns) \subseteq Result(t)
         /\ (\A n \in Range(ns) : IsFromRelative(n)) => Result(t) = FromRelativeNames(ns)
         /\ ns = <<ImportFromNode(NoModule, 1, <<n_c>>)>> => Result(t) = {n_c}
         /\ ns = <<ImportFromNode(NoModule, 2, <<n_c, n_d>>)>> => Result(t) = {n_c, n_d}
         /\ ( /\ Len(ns) = 3
              /\ \E i, j, k \in 1..3 :
                   IsImport(ns[i]) /\ IsFromModule(ns[j]) /\ IsFromRelative(ns[k]) )
            => \A i, j, k \in 1..3 :
                 IsImport(ns[i]) /\ IsFromModule(ns[j]) /\ IsFromRelative(ns[k])
                 => Result(t) = AliasNames(ns[i]) \cup {TopLevel(ns[j].module)}
                                  \cup AliasNames(ns[k])

C2_Witness ==
  /\ Done(1)
  /\ fs[arg[1]] = ValidFile(<<ImportNode(<<n_os>>), ImportFromNode(n_a_b, 0, <<n_c>>),
                              ImportFromNode(NoModule, 2, <<n_c, n_d>>)>>)
  /\ Result(1) = {n_os, n_a, n_c, n_d}

\* C3 as stated: no call ends by an exception; every failure of the read or of the
\* parse ends the call with an empty result.
C3_NeverRaises ==
  \A t \in Threads :
    Done(t) => /\ ~ret[t].raised
               /\ ~IsValid(fs[arg[t]]) => ret[t].value = <<>>

IdentifierChars == {"a", "b", "c", "d", "o", "s"}
IsIdentifier(s) == s # <<>> /\ \A i \in 1..Len(s) : s[i] \in IdentifierChars

\* C5 as stated: every element of the result for a parseable file is a simple
\* identifier, also for `from . import *`.
C5_SimpleIdentifiers ==
  \A t \in Threads : ValidDone(t) => \A n \in Result(t) : IsIdentifier(n)

\* C6: the returned list holds no name twice, whatever number of statements name it:
\* `import a`, `import a.b`, `from a import d` yield the single entry a.
C6_NoDuplicates ==
  \A t \in Threads :
    Done(t) /\ ~ret[t].raised =>
      /\ \A i, j \in 1..Len(ret[t].value) : i # j => ret[t].value[i] # ret[t].value[j]
      /\ fs[arg[t]] = ValidFile(<<ImportNode(<<n_a>>), ImportNode(<<n_a_b>>),
                                  ImportFromNode(n_a, 0, <<n_d>>)>>)
         => ret[t].value = <<n_a>>

C6_Witness ==
  /\ Done(1)
  /\ fs[arg[1]] = ValidFile(<<ImportNode(<<n_a>>), ImportNode(<<n_a_b>>),
                              ImportFromNode(n_a, 0, <<n_d>>)>>)
  /\ ret[1].value = <<n_a>>

\* C7: a call on a file the caller has analysed before ends as the earlier call did:
\* the same set of names, whatever other files were analysed in between.
C7_SameResultTwice ==
  \A t \in Threads :
    Done(t) /\ last[t][arg[t]].called =>
      /\ ret[t].raised = last[t][arg[t]].raised
      /\ Result(t) = last[t][arg[t]].names

C7_Witness ==
  /\ Done(1)
  /\ last[1][arg[1]].called
  /\ \E f \in DOMAIN fs : f # arg[1] /\ last[1][f].called /\ last[1][f].names # {}
  /\ Result(1) # {}
  /\ Result(1) = last[1][arg[1]].names

\* How a call on the file ends when no other call runs: the traversal from the first
\* node to the last, or the handler.
RECURSIVE Collect(_)
Collect(ns) == IF ns = <<>> THEN {} ELSE Range(Visit(Head(ns))) \cup Collect(Tail(ns))
Alone(file) ==
  IF IsValid(file)
  THEN [raised |-> FALSE, names |-> Collect(file.nodes)]
  ELSE [raised |-> ~stdout_ok, names |-> {}]

\* C8: with two callers at work on different files, each call ends as it ends when
\* run alone, and its file object is closed when it ends, on every path.
C8_NoInterference ==
  \A t \in Threads :
    Done(t) =>
      /\ [raised |-> ret[t].raised, names |-> Result(t)] = Alone(fs[arg[t]])
      /\ handle[t] = IF fs[arg[t]].opens THEN "closed" ELSE "none"

C8_Witness ==
  /\ Done(1)
  /\ handle[1] = "closed"
  /\ Result(1) # {}
  /\ pc[2] = "read"
  /\ handle[2] = "open"
  /\ arg[2] # arg[1]

\* The parts of C9: what holds in every state, of every start, of every selection.
C9_State ==
  /\ \A i \in 1..Len(tasks) : tasks[i].script.exists /\ tasks[i].script.suffix = ".py"
  /\ source_script_path # NoPath =>
       source_script_path.exists /\ source_script_path.suffix = ".py"
  /\ infobar.kind \in {"file_missing", "not_py", "select_first"} =>
       source_script_path = NoPath
C9_Launch ==
  Len(tasks') > Len(tasks) =>
    /\ source_script_path # NoPath
    /\ tasks'[Len(tasks')].script = source_script_path
C9_Select ==
  source_script_path' # source_script_path /\ source_script_path' # NoPath =>
    /\ infobar'.kind = "selected"
    /\ source_script_path' \in Urls

\* C9: a packaging task is started only when the model holds a script, and runs that
\* script; the model holds only a path that existed and ended in .py when it was
\* dropped or picked, and takes one only by such a selection; after a rejected
\* selection, and whenever a start click is refused, the model holds no script.
C9_StartNeedsScript == []C9_State /\ [][C9_Launch]_vars /\ [][C9_Select]_vars

C9_Witness ==
  /\ infobar.kind = "select_first"
  /\ Len(tasks) = 1
  /\ source_script_path = NoPath

\* C10 as stated: the time a successful task reports is the time from that task's
\* own start to its end.
C10_OwnElapsedTime ==
  [][\A i \in 1..Len(tasks) :
       tasks[i].state = "running" /\ tasks'[i].state = "succeeded" =>
         infobar'.duration = now - tasks[i].started]_vars

====
